---- MODULE Spec2Model ----
(***************************************************************************)
(* Transaction ledger of the fixed-assets management service:              *)
(* app/routes/transactions.py (handlers), app/models.py (tables),          *)
(* app/schemas.py (request validation).                                    *)
(*                                                                         *)
(* The committed database is the tuple of variables quantity,              *)
(* transactions, asset_transactions, warehouses, next_tid, next_lid.       *)
(* Spec runs the handlers one request at a time (each action is a whole    *)
(* handler, from request to commit or rollback).  SpecConc runs requests   *)
(* concurrently: each request has its own SQLAlchemy session and its       *)
(* reads and its commit are separate steps.                                *)
(*                                                                         *)
(* The direction flag of a transaction header is the attribute the         *)
(* handlers read as transaction.transaction_type (transactions.py:473,     *)
(* 598, 715, 830) and that TransactionList.post and populate_data.py:436   *)
(* pass to the Transaction constructor.                                    *)
(***************************************************************************)
EXTENDS Integers, Sequences, FiniteSets, TLC

\* ---------------------------------------------------------------- bounds
\* The quantity every asset holds before the first transaction, the largest
\* quantity of a request line, the transaction and line ids the sequential
\* runs hand out, the range -MaxStock..MaxStock the sequential runs keep the
\* asset quantities in, and the number of concurrent requests.
InitQty == 1
MaxQty == 2
MaxTid == 2
MaxLid == 2
MaxStock == 3
NumRequests == 2
\* The transaction ids and line ids the runs of SpecNumbers hand out.
MaxCreates == 3

\* ------------------------------------------------------------ input sets
\* The rows of fixed_assets and warehouses (warehouse w belongs to branch w at
\* the start), the warehouse ids the requests of Spec name, and ids of rows
\* that do not exist.
Assets == {1, 2}
MissingAsset == 3
AllWarehouses == {1, 2}
Warehouses == {1}
MissingWarehouse == 3
MissingId == 0
TypeIN == TRUE
TypeOUT == FALSE
\* Python None and a present value; an absent key of a patch is Absent.  The
\* amount of a request is a decimal number, written in thousandths: Some(15)
\* is 0.015.  A loaded or stored amount is in hundredths: Some(2) is 0.02.
None == << >>
Some(v) == << v >>
Absent == << >>
Present(v) == << v >>
Amounts == {None}

\* Request lines: the well-formed ones and one of each malformed kind.
ValidLines == [asset_id : Assets, quantity : 1..MaxQty, amount : Amounts]
InvalidLines == {[asset_id |-> MissingAsset, quantity |-> 1, amount |-> None],
                 [asset_id |-> 1, quantity |-> 0, amount |-> None],
                 [asset_id |-> 1, quantity |-> 1, amount |-> Some(-10)]}
LineInputs == ValidLines \cup InvalidLines
\* data['asset_transactions']: no line, one line, two well-formed lines, or a
\* well-formed line followed by a malformed one
LineLists == {<< >>} \cup {<< l >> : l \in LineInputs}
                     \cup {<< l1, l2 >> : l1 \in ValidLines, l2 \in ValidLines}
                     \cup {<< [asset_id |-> 1, quantity |-> 1, amount |-> None], l2 >> :
                              l2 \in InvalidLines}

\* The bodies of createTransaction requests for the warehouses whs: every line
\* list for an existing warehouse, one request naming a missing warehouse.
CreateRequests(whs) ==
    [warehouse_id : whs, transaction_type : BOOLEAN, asset_transactions : LineLists]
    \cup {[warehouse_id |-> MissingWarehouse, transaction_type |-> TypeIN,
           asset_transactions |-> << l >>] : l \in ValidLines}

\* The bodies of updateTransaction requests: the well-formed patches, the empty
\* body, a patch naming a missing warehouse and patches that hold a custom_id.
TransactionPatches ==
    [warehouse_id : {Absent} \cup {Present(w) : w \in Warehouses},
     transaction_type : {Absent, Present(TypeIN), Present(TypeOUT)},
     other : BOOLEAN, custom_id : {Absent}]
    \cup {[warehouse_id |-> Present(MissingWarehouse), transaction_type |-> Absent,
           other |-> FALSE, custom_id |-> Absent]}
    \cup {[warehouse_id |-> Absent, transaction_type |-> tt, other |-> FALSE,
           custom_id |-> Present(<< w, MissingId >>)] :
              tt \in {Absent, Present(TypeIN)}, w \in Warehouses}

\* The bodies of updateLine requests: the well-formed patches of asset and
\* quantity, the empty body, the patches of the amount alone and one patch of
\* each malformed kind.
LinePatches ==
    [asset_id : {Absent} \cup {Present(a) : a \in Assets},
     quantity : {Absent} \cup {Present(q) : q \in 1..MaxQty},
     amount : {Absent}]
    \cup {[asset_id |-> Absent, quantity |-> Absent, amount |-> Present(m)] : m \in Amounts}
    \cup {[asset_id |-> Present(MissingAsset), quantity |-> Absent, amount |-> Absent],
          [asset_id |-> Absent, quantity |-> Present(0), amount |-> Absent],
          [asset_id |-> Absent, quantity |-> Absent, amount |-> Present(Some(-10))]}

\* Requests with amounts, on asset 1: amounts of 0.015, -0.001 and -0.010 and
\* no amount, quantities from 0.
ValuedAmounts == {None, Some(15), Some(-1), Some(-10)}
ValuedLines == [asset_id : {1}, quantity : {0, 1, 2}, amount : ValuedAmounts]
ValuedCreateRequests ==
    [warehouse_id : Warehouses, transaction_type : BOOLEAN,
     asset_transactions : {<< l >> : l \in ValuedLines}]
ValuedPatches ==
    [asset_id : {Absent},
     quantity : {Absent} \cup {Present(q) : q \in {0, 1, 2}},
     amount : {Absent} \cup {Present(m) : m \in ValuedAmounts}]

\* The bodies of updateAsset requests (FixedAssetSchema, partial): a quantity or
\* none, and the other fields, which pass validation or do not (category_id
\* must name a category).
AssetPatches == [quantity : {Absent} \cup {Present(q) : q \in 0..MaxQty}, valid : BOOLEAN]

\* The bodies of bulkUpdateAssets requests: lists of zero, one or two items,
\* each with the id of an asset, a quantity or none, and other fields.
AssetItems == [id : Assets \cup {MissingAsset}, quantity : {Absent, Present(0)},
               valid : BOOLEAN]
AssetItemLists == {<< >>} \cup {<< i >> : i \in AssetItems}
                          \cup {<< i1, i2 >> : i1 \in AssetItems, i2 \in AssetItems}

TransactionIds == 1..MaxTid
LineIds == 1..MaxLid

VARIABLES quantity, transactions, asset_transactions, warehouses, next_tid, next_lid,
          response, issued, requests, base

dbvars == << quantity, transactions, asset_transactions, warehouses, next_tid, next_lid >>
vars == << quantity, transactions, asset_transactions, warehouses, next_tid, next_lid,
           response, issued, requests, base >>

\* The quantity every asset holds before the first transaction.
startQty == [a \in Assets |-> InitQty]

\* The committed database as one value.
DB == [quantity |-> quantity, transactions |-> transactions,
       asset_transactions |-> asset_transactions, warehouses |-> warehouses,
       next_tid |-> next_tid, next_lid |-> next_lid]

\* ------------------------------------------------------------ helpers
RECURSIVE SumOver(_, _)
SumOver(f, S) == IF S = {} THEN 0
                 ELSE LET x == CHOOSE y \in S : TRUE IN f[x] + SumOver(f, S \ {x})

\* AssetTransaction.calculate_total_value
calculate_total_value(q, amount) == IF amount # None THEN Some(q * amount[1]) ELSE None

\* AssetTransaction(...) constructor: the row of a line
AssetTransaction(tid, asset_id, q, amount) ==
    [transaction_id |-> tid, asset_id |-> asset_id, quantity |-> q, amount |-> amount,
     total_value |-> calculate_total_value(q, amount)]

\* A custom id numbered by the primary-key sequence of transactions.
generate_custom_id_from_sequence(d, branch_id) == << branch_id, d.next_tid >>

\* Transaction.generate_custom_id: "<branch_id>-<count + 1>", count = the
\* transactions joined to a warehouse of that branch.  The string is modelled
\* as the pair <<branch_id, count + 1>>.
generate_custom_id(d, branch_id) ==
    LET count == Cardinality({t \in DOMAIN d.transactions :
                    d.warehouses[d.transactions[t].warehouse_id] = branch_id})
    IN << branch_id, count + 1 >>

\* A rollback that keeps what the session had flushed and changed.
rollback_keeps_session(committed, session) == session

\* db.session.rollback(): the session's pending changes are discarded, the
\* database keeps its committed rows (the primary-key sequences are not
\* rolled back).
rollback(committed, session) ==
    [committed EXCEPT !.next_tid = session.next_tid, !.next_lid = session.next_lid]

\* A teardown that writes the session's pending changes.
teardown_writes_session(committed, session) == session

\* End of a request that returned without commit or rollback: Flask-SQLAlchemy
\* removes the request's scoped session, which discards its pending changes.
teardown(committed, session) ==
    [committed EXCEPT !.next_tid = session.next_tid, !.next_lid = session.next_lid]

\* db.session.commit(): the session's state becomes the committed state.
commit(committed, session) == session

\* The result of a handler: the HTTP status, the committed database after the
\* request, the id of the row it created or addressed, and whether the
\* session held unwritten asset changes when the handler gave up.
Result(status, d, id, session, committed) ==
    [status |-> status, db |-> d, id |-> id,
     dirty |-> (status >= 400 /\ session.quantity # committed.quantity)]

\* fields.Decimal(places=2): the number is quantized to two places, rounding
\* half to even (the rounding of the decimal context).  m is in thousandths,
\* the result in hundredths.
quantize(m) ==
    LET q == m \div 10
        r == m % 10
    IN IF r < 5 THEN q
       ELSE IF r > 5 THEN q + 1
       ELSE IF q % 2 = 0 THEN q ELSE q + 1

\* The amount field of AssetTransactionCreateSchema as deserialized
load_amount(amount) == IF amount = None THEN None ELSE Some(quantize(amount[1]))

\* AssetTransactionCreateSchema.load of one line: the deserialized fields
load_line(l) == [l EXCEPT !.amount = load_amount(l.amount)]

\* AssetTransactionCreateSchema: validate_asset, validate_quantity,
\* validate_amount, each on the deserialized value
validate_asset(d, asset_id) == asset_id \in DOMAIN d.quantity
validate_quantity(q) == q > 0
validate_amount(amount) == amount = None \/ amount[1] >= 0

validate_line(d, l) ==
    /\ validate_asset(d, l.asset_id)
    /\ validate_quantity(l.quantity)
    /\ validate_amount(load_amount(l.amount))

\* TransactionCreateSchema: validate_warehouse, validate_asset_transactions, nested lines
validate_create(d, wh, ls) ==
    /\ wh \in DOMAIN d.warehouses
    /\ Len(ls) > 0
    /\ \A k \in 1..Len(ls) : validate_line(d, ls[k])

\* An effect that ignores the direction.
apply_line_as_out(x, transaction_type, q) == x - q

\* The effect of a line of quantity q on an asset quantity x: += for IN, -= for OUT
apply_line(x, transaction_type, q) == IF transaction_type = TypeIN THEN x + q ELSE x - q

\* A reversal that ignores the direction.
reverse_line_as_in(x, transaction_type, q) == x - q

\* The reversal of a line: -= for IN, += for OUT
reverse_line(x, transaction_type, q) == IF transaction_type = TypeIN THEN x - q ELSE x + q

\* A stock check that lets a request take one unit more than the asset holds.
insufficient_by_two(transaction_type, available, q) ==
    transaction_type = TypeOUT /\ available + 1 < q

\* "if not transaction_type: if asset.quantity < quantity": the stock check
insufficient(transaction_type, available, q) ==
    transaction_type = TypeOUT /\ available < q

\* A stock check that reads the committed quantity of the asset.
on_hand_committed(committed, s, asset_id) == committed.quantity[asset_id]

\* asset.quantity of the object db.session.get(FixedAsset, asset_id) returns:
\* the session's object, with the changes the request has made to it so far.
on_hand(committed, s, asset_id) == s.quantity[asset_id]

\* The loop of TransactionList.post over data['asset_transactions'], from line k
\* on, in session s (s.quantity are the session's asset objects).  rows are the
\* AssetTransaction objects built so far.
RECURSIVE create_lines(_, _, _, _, _, _, _)
create_lines(committed, s, tid, transaction_type, ls, k, rows) ==
    IF k > Len(ls)
    THEN LET n == Len(rows)
             ids == s.next_lid .. (s.next_lid + n - 1)
             s2 == [s EXCEPT !.asset_transactions =
                                 [i \in DOMAIN s.asset_transactions \cup ids |->
                                     IF i \in ids THEN rows[i - s.next_lid + 1]
                                     ELSE s.asset_transactions[i]],
                             !.next_lid = s.next_lid + n]
         IN Result(201, commit(committed, s2), tid, s2, committed)
    ELSE LET l == ls[k] IN
         IF l.asset_id \notin DOMAIN s.quantity
         THEN Result(404, rollback(committed, s), MissingId, s, committed)
         ELSE IF insufficient(transaction_type, on_hand(committed, s, l.asset_id), l.quantity)
         THEN Result(409, rollback(committed, s), MissingId, s, committed)
         ELSE LET s2 == [s EXCEPT !.quantity[l.asset_id] =
                                      apply_line(@, transaction_type, l.quantity)]
              IN create_lines(committed, s2, tid, transaction_type, ls, k + 1,
                              Append(rows, AssetTransaction(tid, l.asset_id, l.quantity, l.amount)))

\* TransactionList.post
TransactionList_post(d, wh, transaction_type, ls) ==
    IF ~validate_create(d, wh, ls) THEN Result(400, d, MissingId, d, d)
    ELSE IF wh \notin DOMAIN d.warehouses THEN Result(404, d, MissingId, d, d)
    ELSE LET custom_id == generate_custom_id(d, d.warehouses[wh])
             tid == d.next_tid
             header == [custom_id |-> custom_id, warehouse_id |-> wh,
                        transaction_type |-> transaction_type]
             \* db.session.add(new_transaction); db.session.flush()
             flushed == [d EXCEPT !.transactions =
                                      [t \in DOMAIN d.transactions \cup {tid} |->
                                          IF t = tid THEN header ELSE d.transactions[t]],
                                  !.next_tid = d.next_tid + 1]
         IN IF \E t \in DOMAIN d.transactions : d.transactions[t].custom_id = custom_id
            THEN \* unique constraint on custom_id: IntegrityError, rollback, 409
                 Result(409, rollback(d, flushed), MissingId, flushed, d)
            ELSE create_lines(d, flushed, tid, transaction_type,
                              [k \in 1..Len(ls) |-> load_line(ls[k])], 1, << >>)

\* transaction_schema.load(json_data, partial=True): custom_id is dump_only, so
\* a body that holds it fails with "Unknown field"; a warehouse_id must name a
\* warehouse.
TransactionSchema_valid(d, patch) ==
    /\ patch.custom_id = Absent
    /\ patch.warehouse_id # Absent => patch.warehouse_id[1] \in DOMAIN d.warehouses

\* A setattr loop that gives the header a new number when its direction is set.
set_transaction_fields_renumbering(t, data) ==
    IF data.transaction_type # Absent
    THEN [t EXCEPT !.transaction_type = data.transaction_type[1],
                   !.custom_id = << t.custom_id[1], t.custom_id[2] + 1 >>]
    ELSE t

\* "for key, value in data.items(): setattr(transaction, key, value)"
set_transaction_fields(t, data) ==
    LET t1 == IF data.warehouse_id # Absent
              THEN [t EXCEPT !.warehouse_id = data.warehouse_id[1]] ELSE t
        t2 == IF data.transaction_type # Absent
              THEN [t1 EXCEPT !.transaction_type = data.transaction_type[1]] ELSE t1
        t3 == IF data.custom_id # Absent
              THEN [t2 EXCEPT !.custom_id = data.custom_id[1]] ELSE t2
    IN t3

\* A put that replaces the transaction: its fields are set and its lines are
\* deleted.
TransactionResource_put_replacing(d, tid, patch) ==
    IF tid \notin DOMAIN d.transactions THEN Result(404, d, tid, d, d)
    ELSE IF ~TransactionSchema_valid(d, patch) THEN Result(400, d, tid, d, d)
    ELSE LET kept == {i \in DOMAIN d.asset_transactions :
                         d.asset_transactions[i].transaction_id # tid}
             s == [d EXCEPT !.transactions[tid] = set_transaction_fields(@, patch),
                            !.asset_transactions = [i \in kept |-> d.asset_transactions[i]]]
         IN Result(200, commit(d, s), tid, s, d)

\* TransactionResource.put.  patch holds the loadable keys of TransactionSchema:
\* warehouse_id, transaction_type, and other (date, description,
\* reference_number, attached_file), each Absent or Present, and custom_id.
TransactionResource_put(d, tid, patch) ==
    IF /\ patch.warehouse_id = Absent
       /\ patch.transaction_type = Absent
       /\ patch.custom_id = Absent
       /\ ~patch.other
    THEN Result(400, d, tid, d, d)
    ELSE IF tid \notin DOMAIN d.transactions THEN Result(404, d, tid, d, d)
    ELSE IF ~TransactionSchema_valid(d, patch) THEN Result(400, d, tid, d, d)
    ELSE LET \* if 'custom_id' in data: del data['custom_id']
             data == [patch EXCEPT !.custom_id = Absent]
             s == [d EXCEPT !.transactions[tid] = set_transaction_fields(@, data)]
         IN Result(200, commit(d, s), tid, s, d)

\* A relationship that loads no line.
no_lines(d, tid) == {}

\* The lines of transaction tid (transaction.asset_transactions)
LinesOf(d, tid) == {i \in DOMAIN d.asset_transactions :
                       d.asset_transactions[i].transaction_id = tid}

\* The loop of TransactionResource.delete over transaction.asset_transactions
RECURSIVE reverse_lines(_, _, _)
reverse_lines(s, transaction_type, ids) ==
    IF ids = {} THEN s
    ELSE LET i == CHOOSE j \in ids : \A j2 \in ids : j <= j2
             row == s.asset_transactions[i]
             s2 == IF row.asset_id \in DOMAIN s.quantity
                   THEN [s EXCEPT !.quantity[row.asset_id] =
                                      reverse_line(@, transaction_type, row.quantity)]
                   ELSE s
         IN reverse_lines(s2, transaction_type, ids \ {i})

\* TransactionResource.delete
TransactionResource_delete(d, tid) ==
    IF tid \notin DOMAIN d.transactions THEN Result(404, d, tid, d, d)
    ELSE LET s1 == reverse_lines(d, d.transactions[tid].transaction_type, LinesOf(d, tid))
             \* db.session.delete(transaction): the cascade deletes its lines
             s2 == [s1 EXCEPT !.transactions =
                                  [t \in DOMAIN d.transactions \ {tid} |-> d.transactions[t]],
                              !.asset_transactions =
                                  [i \in DOMAIN d.asset_transactions \ LinesOf(d, tid) |->
                                      d.asset_transactions[i]]]
         IN Result(200, commit(d, s2), tid, s2, d)

\* TransactionAssetsList.post
TransactionAssetsList_post(d, tid, json_data) ==
    IF tid \notin DOMAIN d.transactions THEN Result(404, d, MissingId, d, d)
    ELSE IF ~validate_line(d, json_data) THEN Result(400, d, MissingId, d, d)
    ELSE LET l == load_line(json_data) IN
         IF l.asset_id \notin DOMAIN d.quantity THEN Result(404, d, MissingId, d, d)
         ELSE LET transaction_type == d.transactions[tid].transaction_type IN
         IF insufficient(transaction_type, d.quantity[l.asset_id], l.quantity)
         THEN Result(409, teardown(d, d), MissingId, d, d)
         ELSE LET lid == d.next_lid
                  row == AssetTransaction(tid, l.asset_id, l.quantity, l.amount)
                  s == [d EXCEPT !.quantity[l.asset_id] =
                                     apply_line(@, transaction_type, l.quantity),
                                 !.asset_transactions =
                                     [i \in DOMAIN d.asset_transactions \cup {lid} |->
                                         IF i = lid THEN row ELSE d.asset_transactions[i]],
                                 !.next_lid = d.next_lid + 1]
              IN Result(201, commit(d, s), lid, s, d)

\* A setattr loop that is not followed by calculate_total_value().
set_line_fields_keeping_total(row, patch) ==
    LET r1 == IF patch.asset_id # Absent THEN [row EXCEPT !.asset_id = patch.asset_id[1]] ELSE row
        r2 == IF patch.quantity # Absent THEN [r1 EXCEPT !.quantity = patch.quantity[1]] ELSE r1
    IN IF patch.amount # Absent THEN [r2 EXCEPT !.amount = load_amount(patch.amount[1])] ELSE r2

\* The "for key, value in data.items(): setattr(...)" of AssetTransactionResource.put
\* followed by calculate_total_value()
set_line_fields(row, patch) ==
    LET r1 == IF patch.asset_id # Absent THEN [row EXCEPT !.asset_id = patch.asset_id[1]] ELSE row
        r2 == IF patch.quantity # Absent THEN [r1 EXCEPT !.quantity = patch.quantity[1]] ELSE r1
        r3 == IF patch.amount # Absent THEN [r2 EXCEPT !.amount = load_amount(patch.amount[1])]
              ELSE r2
    IN [r3 EXCEPT !.total_value = calculate_total_value(r3.quantity, r3.amount)]

\* AssetTransactionCreateSchema.load(json_data, partial=True)
validate_line_patch(d, patch) ==
    /\ patch.asset_id # Absent => validate_asset(d, patch.asset_id[1])
    /\ patch.quantity # Absent => validate_quantity(patch.quantity[1])
    /\ patch.amount # Absent => validate_amount(load_amount(patch.amount[1]))

\* A reversal that leaves the asset as it is.
undo_line_skipped(s, asset_id, transaction_type, q) == s

\* "Reverse the effect on the old asset" / "Reverse the old effect" of
\* AssetTransactionResource.put: the session after the line's quantity q is
\* taken back from the asset, if the asset exists
undo_line(s, asset_id, transaction_type, q) ==
    IF asset_id \in DOMAIN s.quantity
    THEN [s EXCEPT !.quantity[asset_id] = reverse_line(@, transaction_type, q)]
    ELSE s

\* An application that deducts the quantity whatever the direction.
redo_line_as_out(s, asset_id, transaction_type, q) ==
    [s EXCEPT !.quantity[asset_id] = @ - q]

\* "Apply effect to new asset" / "Apply the new effect" of
\* AssetTransactionResource.put
redo_line(s, asset_id, transaction_type, q) ==
    [s EXCEPT !.quantity[asset_id] = apply_line(@, transaction_type, q)]

\* AssetTransactionResource.put
AssetTransactionResource_put(d, lid, patch) ==
    IF patch.asset_id = Absent /\ patch.quantity = Absent /\ patch.amount = Absent
    THEN Result(400, d, lid, d, d)
    ELSE IF lid \notin DOMAIN d.asset_transactions THEN Result(404, d, lid, d, d)
    ELSE IF ~validate_line_patch(d, patch) THEN Result(400, d, lid, d, d)
    ELSE
    LET row == d.asset_transactions[lid]
        old_quantity == row.quantity
        old_asset_id == row.asset_id
        transaction_type == d.transactions[row.transaction_id].transaction_type
        new_quantity == IF patch.quantity # Absent THEN patch.quantity[1] ELSE old_quantity
        new_asset_id == IF patch.asset_id # Absent THEN patch.asset_id[1] ELSE old_asset_id
        finish(s) == LET s2 == [s EXCEPT !.asset_transactions[lid] = set_line_fields(row, patch)]
                     IN Result(200, commit(d, s2), lid, s2, d)
    IN IF new_asset_id # old_asset_id
       THEN LET s1 == undo_line(d, old_asset_id, transaction_type, old_quantity)
            IN IF new_asset_id \notin DOMAIN s1.quantity
               THEN Result(404, teardown(d, s1), lid, s1, d)
               ELSE IF insufficient(transaction_type, s1.quantity[new_asset_id], new_quantity)
               THEN Result(409, teardown(d, s1), lid, s1, d)
               ELSE finish(redo_line(s1, new_asset_id, transaction_type, new_quantity))
       ELSE IF old_asset_id \in DOMAIN d.quantity
       THEN LET s1 == undo_line(d, old_asset_id, transaction_type, old_quantity)
            IN IF insufficient(transaction_type, s1.quantity[old_asset_id], new_quantity)
               THEN \* the old effect is restored before the error is returned
                    LET s2 == [s1 EXCEPT !.quantity[old_asset_id] =
                                             apply_line(@, transaction_type, old_quantity)]
                    IN Result(409, teardown(d, s2), lid, s2, d)
               ELSE finish(redo_line(s1, old_asset_id, transaction_type, new_quantity))
       ELSE finish(d)

\* AssetTransactionResource.delete
AssetTransactionResource_delete(d, lid) ==
    IF lid \notin DOMAIN d.asset_transactions THEN Result(404, d, lid, d, d)
    ELSE LET row == d.asset_transactions[lid]
             transaction_type == d.transactions[row.transaction_id].transaction_type
             s1 == IF row.asset_id \in DOMAIN d.quantity
                   THEN [d EXCEPT !.quantity[row.asset_id] =
                                      reverse_line(@, transaction_type, row.quantity)]
                   ELSE d
             s2 == [s1 EXCEPT !.asset_transactions =
                                  [i \in DOMAIN d.asset_transactions \ {lid} |->
                                      d.asset_transactions[i]]]
         IN Result(200, commit(d, s2), lid, s2, d)

\* "for key, value in data.items(): setattr(asset, key, value)" on the
\* quantity of the asset (its other columns are not part of the ledger)
set_asset_fields(x, data) == IF data.quantity # Absent THEN data.quantity[1] ELSE x

\* AssetResource.put
AssetResource_put(d, asset_id, patch) ==
    IF asset_id \notin DOMAIN d.quantity THEN Result(404, d, asset_id, d, d)
    ELSE IF ~patch.valid THEN Result(400, d, asset_id, d, d)
    ELSE LET s == [d EXCEPT !.quantity[asset_id] = set_asset_fields(@, patch)]
         IN Result(200, commit(d, s), asset_id, s, d)

\* The two phases of AssetBulkUpdate.put from item k on: an item whose asset
\* does not exist or whose fields fail validation is rejected, the others are
\* applied without their id and quantity.
RECURSIVE bulk_update(_, _, _)
bulk_update(s, request_data, k) ==
    IF k > Len(request_data) THEN s
    ELSE LET asset_data == request_data[k]
             update_data == [asset_data EXCEPT !.quantity = Absent]
         IN IF asset_data.id \notin DOMAIN s.quantity \/ ~asset_data.valid
            THEN bulk_update(s, request_data, k + 1)
            ELSE bulk_update([s EXCEPT !.quantity[asset_data.id] =
                                           set_asset_fields(@, update_data)],
                             request_data, k + 1)

\* AssetBulkUpdate.put
AssetBulkUpdate_put(d, request_data) ==
    IF request_data = << >> THEN Result(400, d, MissingId, d, d)
    ELSE LET s == bulk_update(d, request_data, 1)
         IN Result(200, commit(d, s), MissingId, s, d)

\* ------------------------------------------------------------ state
Install(d) ==
    /\ \A a \in DOMAIN d.quantity : d.quantity[a] \in -MaxStock..MaxStock
    /\ quantity' = d.quantity
    /\ transactions' = d.transactions
    /\ asset_transactions' = d.asset_transactions
    /\ warehouses' = d.warehouses
    /\ next_tid' = d.next_tid
    /\ next_lid' = d.next_lid

\* The last response: the operation, its status, the row it created or
\* addressed, whether the handler gave up with unwritten asset changes, and,
\* for the round trips, the asset quantities before a create / addLine that
\* this request or the one before it made (undoes: this request deleted what
\* the request right before it created).
Respond(op, r, before, undoes, case) ==
    response' = [op |-> op, status |-> r.status,
                 id |-> IF r.status = 201 THEN r.id ELSE MissingId, dirty |-> r.dirty,
                 before |-> before, undoes |-> undoes, case |-> case]

NoResponse == [op |-> "none", status |-> 0, id |-> MissingId, dirty |-> FALSE,
               before |-> << >>, undoes |-> "no", case |-> "none"]

\* The kind of request the last response answered (the field case of response).
\* A request amount is negative when the number sent is below zero.
Negative(amount) == amount # None /\ amount[1] < 0

\* The quantity the lines ls ask of asset a
Requested(ls, a) ==
    LET ks == {k \in 1..Len(ls) : ls[k].asset_id = a}
    IN SumOver([k \in ks |-> ls[k].quantity], ks)

\* createTransaction: it names a missing warehouse or asset; a line has a
\* quantity <= 0 or a negative amount; an OUT line asks more than its asset
\* holds; the OUT lines of one asset each ask no more than it holds and
\* together ask more.
CreateCase(d, data) ==
    LET ls == data.asset_transactions IN
    IF \/ data.warehouse_id \notin DOMAIN d.warehouses
       \/ \E k \in 1..Len(ls) : ls[k].asset_id \notin DOMAIN d.quantity
    THEN "missing_ref"
    ELSE IF \E k \in 1..Len(ls) : ls[k].quantity <= 0 \/ Negative(ls[k].amount)
    THEN "malformed"
    ELSE IF data.transaction_type = TypeIN THEN "none"
    ELSE IF \E k \in 1..Len(ls) : ls[k].quantity > d.quantity[ls[k].asset_id]
    THEN "insufficient"
    ELSE IF \E k \in 1..Len(ls) : Requested(ls, ls[k].asset_id) > d.quantity[ls[k].asset_id]
    THEN "cumulative"
    ELSE "none"

\* addLine on an existing transaction: the same kinds, for its one line.
AddLineCase(d, tid, l) ==
    IF tid \notin DOMAIN d.transactions THEN "none"
    ELSE IF l.asset_id \notin DOMAIN d.quantity THEN "missing_ref"
    ELSE IF l.quantity <= 0 \/ Negative(l.amount) THEN "malformed"
    ELSE IF /\ d.transactions[tid].transaction_type = TypeOUT
            /\ l.quantity > d.quantity[l.asset_id]
    THEN "insufficient"
    ELSE "none"

\* updateLine on an existing line: the patch names a missing asset; it has a
\* quantity <= 0 or a negative amount; it holds a quantity only, other than
\* the line's.
UpdateLineCase(d, lid, patch) ==
    IF lid \notin DOMAIN d.asset_transactions THEN "none"
    ELSE IF patch.asset_id # Absent /\ patch.asset_id[1] \notin DOMAIN d.quantity
    THEN "missing_ref"
    ELSE IF \/ patch.quantity # Absent /\ patch.quantity[1] <= 0
            \/ patch.amount # Absent /\ Negative(patch.amount[1])
    THEN "malformed"
    ELSE IF /\ patch.asset_id = Absent
            /\ patch.amount = Absent
            /\ patch.quantity # Absent
            /\ patch.quantity[1] # d.asset_transactions[lid].quantity
    THEN "quantity_changed"
    ELSE "none"

DirectionName(transaction_type) == IF transaction_type = TypeIN THEN "IN" ELSE "OUT"

Init ==
    /\ quantity = startQty
    /\ transactions = << >>
    /\ asset_transactions = << >>
    /\ warehouses = [w \in AllWarehouses |-> w]
    /\ next_tid = 1
    /\ next_lid = 1
    /\ response = NoResponse
    /\ issued = {}
    /\ requests = << >>
    /\ base = << >>

\* createTransaction with a body of bodies, while the transaction ids stay
\* within tids and the line ids within lids
createTransactionWithin(bodies, tids, lids) ==
    \E data \in bodies :
        /\ next_tid <= tids
        /\ next_lid + Len(data.asset_transactions) - 1 <= lids
        /\ LET r == TransactionList_post(DB, data.warehouse_id, data.transaction_type,
                                         data.asset_transactions) IN
           /\ Install(r.db)
           /\ Respond("createTransaction", r, IF r.status = 201 THEN quantity ELSE << >>, "no",
                      CreateCase(DB, data))
           /\ issued' = IF r.status = 201 THEN issued \cup {r.db.transactions[r.id].custom_id}
                        ELSE issued
        /\ UNCHANGED << requests, base >>

createTransactionOf(bodies) == createTransactionWithin(bodies, MaxTid, MaxLid)

createTransactionFor(whs) == createTransactionOf(CreateRequests(whs))

createTransaction == createTransactionFor(Warehouses)

createTransactionAnyBranch == createTransactionFor(AllWarehouses)

updateTransaction ==
    \E tid \in TransactionIds, patch \in TransactionPatches :
        /\ LET r == TransactionResource_put(DB, tid, patch) IN
           /\ Install(r.db)
           /\ Respond("updateTransaction", r, << >>, "no", "none")
        /\ UNCHANGED << issued, requests, base >>

deleteTransaction ==
    \E tid \in TransactionIds :
        /\ LET r == TransactionResource_delete(DB, tid) IN
           /\ Install(r.db)
           /\ LET undoes == /\ r.status = 200
                            /\ response.op = "createTransaction"
                            /\ response.status = 201
                            /\ response.id = tid
              IN Respond("deleteTransaction", r, IF undoes THEN response.before ELSE << >>,
                         IF undoes THEN DirectionName(transactions[tid].transaction_type) ELSE "no",
                         "none")
        /\ UNCHANGED << issued, requests, base >>

addLineOf(bodies) ==
    \E tid \in TransactionIds, l \in bodies :
        /\ next_lid <= MaxLid
        /\ LET r == TransactionAssetsList_post(DB, tid, l) IN
           /\ Install(r.db)
           /\ Respond("addLine", r, IF r.status = 201 THEN quantity ELSE << >>, "no",
                      AddLineCase(DB, tid, l))
        /\ UNCHANGED << issued, requests, base >>

addLine == addLineOf(LineInputs)

updateLineOf(bodies) ==
    \E lid \in LineIds, patch \in bodies :
        /\ LET r == AssetTransactionResource_put(DB, lid, patch) IN
           /\ Install(r.db)
           /\ Respond("updateLine", r, << >>, "no", UpdateLineCase(DB, lid, patch))
        /\ UNCHANGED << issued, requests, base >>

updateLine == updateLineOf(LinePatches)

deleteLine ==
    \E lid \in LineIds :
        /\ LET r == AssetTransactionResource_delete(DB, lid) IN
           /\ Install(r.db)
           /\ LET undoes == /\ r.status = 200
                            /\ response.op = "addLine"
                            /\ response.status = 201
                            /\ response.id = lid
              IN Respond("deleteLine", r, IF undoes THEN response.before ELSE << >>,
                         IF undoes
                         THEN DirectionName(transactions[asset_transactions[lid].transaction_id].transaction_type)
                         ELSE "no",
                         "none")
        /\ UNCHANGED << issued, requests, base >>

updateAsset ==
    \E asset_id \in Assets \cup {MissingAsset}, patch \in AssetPatches :
        /\ LET r == AssetResource_put(DB, asset_id, patch) IN
           /\ Install(r.db)
           /\ Respond("updateAsset", r, << >>, "no", "none")
        /\ UNCHANGED << issued, requests, base >>

bulkUpdateAssets ==
    \E request_data \in AssetItemLists :
        /\ LET r == AssetBulkUpdate_put(DB, request_data) IN
           /\ Install(r.db)
           /\ Respond("bulkUpdateAssets", r, << >>, "no", "none")
        /\ UNCHANGED << issued, requests, base >>

\* The requests that change lines or create and delete transactions
NextLedger ==
    \/ createTransaction
    \/ deleteTransaction
    \/ addLine
    \/ updateLine
    \/ deleteLine

Next ==
    \/ NextLedger
    \/ updateTransaction

\* One request at a time, every ledger operation.
Spec == Init /\ [][Next]_vars

\* One request at a time, without updateTransaction.
SpecLines == Init /\ [][NextLedger]_vars

\* One request at a time, creates (in any branch) and deletes of transactions.
NextIds ==
    \/ createTransactionAnyBranch
    \/ deleteTransaction

SpecIds == Init /\ [][NextIds]_vars

\* One request at a time, up to MaxCreates creates of one well-formed line (in
\* any branch) and deletes of transactions.
createTransactionNumbered ==
    createTransactionWithin([warehouse_id : AllWarehouses, transaction_type : BOOLEAN,
                             asset_transactions : {<< l >> : l \in ValidLines}],
                            MaxCreates, MaxCreates)

NextNumbers ==
    \/ createTransactionNumbered
    \/ deleteTransaction

SpecNumbers == Init /\ [][NextNumbers]_vars

\* One request at a time, the requests on transaction headers.
NextHeaders ==
    \/ createTransaction
    \/ updateTransaction
    \/ deleteTransaction

SpecHeaders == Init /\ [][NextHeaders]_vars

\* One request at a time, creates of transactions and the asset routes.
NextAssets ==
    \/ createTransaction
    \/ updateAsset
    \/ bulkUpdateAssets

SpecAssets == Init /\ [][NextAssets]_vars

\* One request at a time, creates, addLines and updateLines with amounts.
createTransactionValued == createTransactionOf(ValuedCreateRequests)
addLineValued == addLineOf(ValuedLines)
updateLineValued == updateLineOf(ValuedPatches)

NextValues ==
    \/ createTransactionValued
    \/ addLineValued
    \/ updateLineValued

SpecValues == Init /\ [][NextValues]_vars

\* updateLine with the request kept beside the response: the id of the line,
\* the patch, and the asset quantities before the call.
updateLineTraced ==
    \E lid \in LineIds, patch \in LinePatches :
        /\ LET r == AssetTransactionResource_put(DB, lid, patch) IN
           /\ Install(r.db)
           /\ response' = [op |-> "updateLine", status |-> r.status, id |-> MissingId,
                           dirty |-> r.dirty, before |-> quantity, undoes |-> "no",
                           case |-> UpdateLineCase(DB, lid, patch),
                           args |-> [id |-> lid, patch |-> patch]]
        /\ UNCHANGED << issued, requests, base >>

\* createTransaction with one well-formed line
createTransactionOfOneLine ==
    createTransactionOf([warehouse_id : Warehouses, transaction_type : BOOLEAN,
                         asset_transactions : {<< l >> : l \in ValidLines}])

\* One request at a time, creates of transactions and updates of their lines.
NextEdits ==
    \/ createTransactionOfOneLine
    \/ updateLineTraced

SpecEdits == Init /\ [][NextEdits]_vars

\* ------------------------------------------------------------ warehouses
\* The rows of branches, and the id of a branch that does not exist.
Branches == {1, 2}
MissingBranch == 3

\* The bodies of updateWarehouse requests (WarehouseSchema, partial): a
\* branch_id or none, and other fields or none.
WarehousePatches ==
    [branch_id : {Absent} \cup {Present(b) : b \in Branches \cup {MissingBranch}},
     other : BOOLEAN]

\* WarehouseResource.put
WarehouseResource_put(d, warehouse_id, patch) ==
    IF patch.branch_id = Absent /\ ~patch.other THEN Result(400, d, warehouse_id, d, d)
    ELSE IF warehouse_id \notin DOMAIN d.warehouses THEN Result(404, d, warehouse_id, d, d)
    \* WarehouseSchema.validate_branch
    ELSE IF patch.branch_id # Absent /\ patch.branch_id[1] \notin Branches
    THEN Result(400, d, warehouse_id, d, d)
    ELSE LET \* for key, value in data.items(): setattr(warehouse, key, value)
             s == IF patch.branch_id # Absent
                  THEN [d EXCEPT !.warehouses[warehouse_id] = patch.branch_id[1]]
                  ELSE d
         IN Result(200, commit(d, s), warehouse_id, s, d)

\* WarehouseResource.delete: db.session.delete(warehouse) deletes, through the
\* cascade of Warehouse.transactions, the transactions of the warehouse, and
\* through the cascade of Transaction.asset_transactions their lines.
WarehouseResource_delete(d, warehouse_id) ==
    IF warehouse_id \notin DOMAIN d.warehouses THEN Result(404, d, warehouse_id, d, d)
    ELSE LET tids == {t \in DOMAIN d.transactions :
                         d.transactions[t].warehouse_id = warehouse_id}
             lids == {i \in DOMAIN d.asset_transactions :
                         d.asset_transactions[i].transaction_id \in tids}
             s == [d EXCEPT !.warehouses =
                                [w \in DOMAIN d.warehouses \ {warehouse_id} |-> d.warehouses[w]],
                            !.transactions =
                                [t \in DOMAIN d.transactions \ tids |-> d.transactions[t]],
                            !.asset_transactions =
                                [i \in DOMAIN d.asset_transactions \ lids |->
                                    d.asset_transactions[i]]]
         IN Result(200, commit(d, s), warehouse_id, s, d)

updateWarehouse ==
    \E warehouse_id \in AllWarehouses \cup {MissingWarehouse}, patch \in WarehousePatches :
        /\ LET r == WarehouseResource_put(DB, warehouse_id, patch) IN
           /\ Install(r.db)
           /\ Respond("updateWarehouse", r, << >>, "no", "none")
        /\ UNCHANGED << issued, requests, base >>

deleteWarehouse ==
    \E warehouse_id \in AllWarehouses \cup {MissingWarehouse} :
        /\ LET r == WarehouseResource_delete(DB, warehouse_id) IN
           /\ Install(r.db)
           /\ Respond("deleteWarehouse", r, << >>, "no", "none")
        /\ UNCHANGED << issued, requests, base >>

\* createTransaction with one well-formed line, for a warehouse of any branch
createTransactionInAnyWarehouse ==
    createTransactionOf([warehouse_id : AllWarehouses, transaction_type : BOOLEAN,
                         asset_transactions : {<< l >> : l \in ValidLines}])

\* The well-formed bodies of updateTransaction requests that may name a
\* warehouse of any branch
HeaderPatches ==
    [warehouse_id : {Absent} \cup {Present(w) : w \in AllWarehouses},
     transaction_type : {Absent, Present(TypeIN), Present(TypeOUT)},
     other : BOOLEAN, custom_id : {Absent}]

\* updateTransaction with the request kept beside the response: the id of the
\* transaction and the patch.
updateTransactionTraced ==
    \E tid \in TransactionIds, patch \in HeaderPatches :
        /\ LET r == TransactionResource_put(DB, tid, patch) IN
           /\ Install(r.db)
           /\ response' = [op |-> "updateTransaction", status |-> r.status, id |-> MissingId,
                           dirty |-> r.dirty, before |-> << >>, undoes |-> "no",
                           case |-> "none", args |-> [id |-> tid, patch |-> patch]]
        /\ UNCHANGED << issued, requests, base >>

\* One request at a time: creates of transactions, updates and deletes of
\* warehouses.
NextWarehouses ==
    \/ createTransactionInAnyWarehouse
    \/ updateWarehouse
    \/ deleteWarehouse

SpecWarehouses == Init /\ [][NextWarehouses]_vars

\* createTransaction for warehouse 1 with one line: one unit of asset 1
createTransactionOfOneUnit ==
    createTransactionOf([warehouse_id : Warehouses, transaction_type : BOOLEAN,
                         asset_transactions :
                             {<< [asset_id |-> 1, quantity |-> 1, amount |-> None] >>}])

\* One request at a time: creates of transactions and updates of their headers.
NextHeaderEdits ==
    \/ createTransactionOfOneUnit
    \/ updateTransactionTraced

SpecHeaderEdits == Init /\ [][NextHeaderEdits]_vars

\* ------------------------------------------------------------ concurrent requests
\* Each request runs in its own session against PostgreSQL (config.py:18) at the
\* default isolation READ COMMITTED.  A session reads committed rows when the
\* handler loads them, changes its own copies, and writes at commit: an asset is
\* written as UPDATE ... SET quantity = <the session's value>.
Requests == 1..NumRequests

Idle == [pc |-> "idle", kind |-> "none", wh |-> 0, transaction_type |-> TypeIN, ls |-> << >>,
         target |-> MissingId, custom_id |-> None, tid |-> MissingId,
         writes |-> << >>, rows |-> << >>, status |-> 0]

\* The requests of the concurrent runs: creates and addLines of one valid line.
ConcLineLists == {<< l >> : l \in ValidLines}

\* A state the sequential program reaches: the start, or the start after one
\* createTransaction of one line.
InitDB == [quantity |-> startQty, transactions |-> << >>, asset_transactions |-> << >>,
           warehouses |-> [w \in AllWarehouses |-> w], next_tid |-> 1, next_lid |-> 1]

ConcStarts == {InitDB} \cup
              {TransactionList_post(InitDB, wh, transaction_type, ls).db :
                   wh \in Warehouses, transaction_type \in BOOLEAN, ls \in ConcLineLists}

InitConc ==
    /\ \E d \in ConcStarts :
          /\ quantity = d.quantity
          /\ transactions = d.transactions
          /\ asset_transactions = d.asset_transactions
          /\ warehouses = d.warehouses
          /\ next_tid = d.next_tid
          /\ next_lid = d.next_lid
          /\ base = d
          /\ issued = {d.transactions[t].custom_id : t \in DOMAIN d.transactions}
    /\ response = NoResponse
    /\ requests = [r \in Requests |-> Idle]

\* What a session that computed database s from snapshot d has pending: the
\* assets it changed, with their new quantities, and the lines it added.
PendingWrites(d, s) ==
    [a \in {x \in DOMAIN d.quantity : s.quantity[x] # d.quantity[x]} |-> s.quantity[a]]

PendingRows(d, s) ==
    LET ids == DOMAIN s.asset_transactions \ DOMAIN d.asset_transactions
        n == Cardinality(ids)
    IN [k \in 1..n |-> s.asset_transactions[d.next_lid + k - 1]]

\* TransactionList.post up to generate_custom_id: schema validation, the
\* warehouse, the count of the branch's committed transactions.
ReceiveCreate(r) ==
    /\ requests[r].pc = "idle"
    /\ \E wh \in AllWarehouses, transaction_type \in BOOLEAN, ls \in ConcLineLists :
          requests' = [requests EXCEPT ![r] =
              IF ~validate_create(DB, wh, ls)
              THEN [Idle EXCEPT !.pc = "done", !.kind = "create", !.status = 400]
              ELSE [Idle EXCEPT !.pc = "flush", !.kind = "create", !.wh = wh,
                                !.transaction_type = transaction_type, !.ls = ls,
                                !.custom_id = Some(generate_custom_id(DB, warehouses[wh]))]]
    /\ UNCHANGED << dbvars, response, issued, base >>

\* db.session.add(new_transaction); db.session.flush(): the INSERT of the header.
\* It waits while another session holds an uncommitted header with the same
\* custom_id, and fails on a committed one (IntegrityError: rollback, 409).
FlushHeader(r) ==
    /\ requests[r].pc = "flush"
    /\ ~\E r2 \in Requests \ {r} : /\ requests[r2].pc \in {"lines", "commit"}
                                   /\ requests[r2].kind = "create"
                                   /\ requests[r2].custom_id = requests[r].custom_id
    /\ IF \E t \in DOMAIN transactions : Some(transactions[t].custom_id) = requests[r].custom_id
       THEN requests' = [requests EXCEPT ![r].pc = "done", ![r].status = 409]
       ELSE requests' = [requests EXCEPT ![r].pc = "lines", ![r].tid = next_tid]
    /\ next_tid' = next_tid + 1
    /\ UNCHANGED << quantity, transactions, asset_transactions, warehouses, next_lid,
                    response, issued, base >>

\* The loop of TransactionList.post over the lines: the session loads the assets
\* as committed now and changes its copies.  A rejected line rolls the session
\* back, with the header it had flushed.
ProcessLines(r) ==
    /\ requests[r].pc = "lines"
    /\ LET q == requests[r]
           header == [custom_id |-> q.custom_id[1], warehouse_id |-> q.wh,
                      transaction_type |-> q.transaction_type]
           s == [DB EXCEPT !.transactions =
                               [t \in DOMAIN transactions \cup {q.tid} |->
                                   IF t = q.tid THEN header ELSE transactions[t]]]
           res == create_lines(DB, s, q.tid, q.transaction_type,
                               [k \in 1..Len(q.ls) |-> load_line(q.ls[k])], 1, << >>)
       IN requests' = [requests EXCEPT ![r] =
              IF res.status = 201
              THEN [q EXCEPT !.pc = "commit", !.writes = PendingWrites(DB, res.db),
                             !.rows = PendingRows(DB, res.db)]
              ELSE [q EXCEPT !.pc = "done", !.status = res.status, !.custom_id = None]]
    /\ UNCHANGED << dbvars, response, issued, base >>

\* TransactionAssetsList.post up to db.session.add(asset_transaction)
ReceiveAddLine(r) ==
    /\ requests[r].pc = "idle"
    /\ \E tid \in DOMAIN transactions, l \in ValidLines :
          LET res == TransactionAssetsList_post(DB, tid, l) IN
          requests' = [requests EXCEPT ![r] =
              IF res.status = 201
              THEN [Idle EXCEPT !.pc = "commit", !.kind = "addLine", !.target = tid,
                                !.ls = << l >>, !.writes = PendingWrites(DB, res.db),
                                !.rows = PendingRows(DB, res.db)]
              ELSE [Idle EXCEPT !.pc = "done", !.kind = "addLine", !.target = tid,
                                !.ls = << l >>, !.status = res.status]]
    /\ UNCHANGED << dbvars, response, issued, base >>

\* db.session.commit() of a create or an addLine: the pending rows are
\* inserted, the changed assets are written with the session's quantities.
Commit(r) ==
    /\ requests[r].pc = "commit"
    /\ LET q == requests[r]
           n == Len(q.rows)
           ids == next_lid .. (next_lid + n - 1)
       IN /\ quantity' = [a \in DOMAIN quantity |->
                             IF a \in DOMAIN q.writes THEN q.writes[a] ELSE quantity[a]]
          /\ asset_transactions' = [i \in DOMAIN asset_transactions \cup ids |->
                                       IF i \in ids THEN q.rows[i - next_lid + 1]
                                       ELSE asset_transactions[i]]
          /\ next_lid' = next_lid + n
          /\ IF q.kind = "create"
             THEN /\ transactions' = [t \in DOMAIN transactions \cup {q.tid} |->
                                         IF t = q.tid
                                         THEN [custom_id |-> q.custom_id[1], warehouse_id |-> q.wh,
                                               transaction_type |-> q.transaction_type]
                                         ELSE transactions[t]]
                  /\ issued' = issued \cup {q.custom_id[1]}
             ELSE UNCHANGED << transactions, issued >>
          /\ requests' = [requests EXCEPT ![r].pc = "done", ![r].status = 201,
                                          ![r].writes = << >>, ![r].rows = << >>]
    /\ UNCHANGED << warehouses, next_tid, response, base >>

NextConc ==
    \E r \in Requests :
        \/ ReceiveCreate(r)
        \/ FlushHeader(r)
        \/ ProcessLines(r)
        \/ ReceiveAddLine(r)
        \/ Commit(r)

\* Concurrent createTransaction and addLine requests, one per session.
SpecConc == InitConc /\ [][NextConc]_vars

\* ------------------------------------------------------------ reports
\* GenerateReport.get and AssetAverage.get read the committed ledger.  They
\* are run on ledgers the write path leaves behind: up to two transactions,
\* each in a warehouse, with a direction and a date, and up to two lines, the
\* custom ids numbered per branch in the order of creation and every asset
\* quantity the starting quantity plus its IN lines minus its OUT lines.
Dates == {1, 2}
\* categories.category of the category each asset belongs to
\* (fixed_assets.category_id is NOT NULL)
CategoryOf == [a \in Assets |-> IF a = 1 THEN "tools" ELSE "vehicles"]
LedgerTransactions == {1, 2}
LedgerLineIds == {1, 2}
LedgerHeaders(whs, dates) == [warehouse_id : whs, transaction_type : BOOLEAN, date : dates]
LedgerLines(n, qs, amounts) ==
    [transaction_id : 1..n, asset_id : Assets, quantity : qs, amount : amounts]

\* The database after the transactions hs were created in order with the lines ls
Ledger(hs, ls) ==
    LET branch(t) == hs[t].warehouse_id
        header(t) == [custom_id |-> << branch(t),
                                       1 + Cardinality({u \in 1..(t - 1) : branch(u) = branch(t)}) >>,
                      warehouse_id |-> hs[t].warehouse_id,
                      transaction_type |-> hs[t].transaction_type,
                      date |-> hs[t].date]
        effect(a) == LET ks == {k \in 1..Len(ls) : ls[k].asset_id = a} IN
                     SumOver([k \in ks |-> IF hs[ls[k].transaction_id].transaction_type = TypeIN
                                           THEN ls[k].quantity ELSE 0 - ls[k].quantity], ks)
    IN [quantity |-> [a \in Assets |-> startQty[a] + effect(a)],
        transactions |-> [t \in 1..Len(hs) |-> header(t)],
        asset_transactions |-> [k \in 1..Len(ls) |->
                                   AssetTransaction(ls[k].transaction_id, ls[k].asset_id,
                                                    ls[k].quantity, ls[k].amount)],
        warehouses |-> [w \in AllWarehouses |-> w],
        next_tid |-> Len(hs) + 1,
        next_lid |-> Len(ls) + 1]

\* The ledgers with transactions in the warehouses whs on the dates dates and
\* lines of the quantities qs and the amounts amounts
Ledgers(whs, dates, qs, amounts) ==
    LET all == UNION {{Ledger(hs, ls) : hs \in [1..n -> LedgerHeaders(whs, dates)],
                                        ls \in UNION {[1..m -> LedgerLines(n, qs, amounts)] :
                                                      m \in IF n = 0 THEN {0}
                                                            ELSE {0} \cup LedgerLineIds}} :
                      n \in {0} \cup LedgerTransactions}
    IN {d \in all : \A a \in Assets : d.quantity[a] >= 0}

\* The query strings of getAssetReport: a date, a category or none, a
\* warehouse_id that is absent, 0 or the id of warehouse 1, a branch_id that is
\* absent or the id of a branch; and one query string without a date.
ReportArgs == [date : {Some(1)}, category : {None, Some("tools")},
               warehouse_id : {None, Some(MissingId), Some(1)},
               branch_id : {None, Some(1), Some(2)}]
              \cup {[date |-> None, category |-> None, warehouse_id |-> None,
                      branch_id |-> None]}

\* "if warehouse_id:", "elif branch_id:", "if category_name:": an argument that
\* is absent or 0 is not applied
Given(arg) == arg # None /\ arg[1] # 0

\* transaction_query ... [t.id for t in transaction_query.all()]
filtered_transaction_ids(d, args) ==
    {t \in DOMAIN d.transactions :
        /\ d.transactions[t].date = args.date[1]
        /\ IF Given(args.warehouse_id)
           THEN d.transactions[t].warehouse_id = args.warehouse_id[1]
           ELSE IF Given(args.branch_id)
           THEN d.warehouses[d.transactions[t].warehouse_id] = args.branch_id[1]
           ELSE TRUE}

\* The lines of the filtered transactions, of any category.
report_lines_of_any_category(d, ids, args) ==
    {i \in DOMAIN d.asset_transactions : d.asset_transactions[i].transaction_id \in ids}

\* The rows the aggregation query joins: the lines of the filtered
\* transactions, of the category asked for
report_lines(d, ids, args) ==
    {i \in DOMAIN d.asset_transactions :
        /\ d.asset_transactions[i].transaction_id \in ids
        /\ args.category # None => CategoryOf[d.asset_transactions[i].asset_id] = args.category[1]}

\* The value a column of the aggregation reads from a line: its quantity, its
\* amount, or AssetTransaction.quantity * AssetTransaction.amount (NULL when
\* the amount is NULL)
line_value(row, column) ==
    IF column = "quantity" THEN Some(row.quantity)
    ELSE IF column = "amount" THEN row.amount
    ELSE IF row.amount = None THEN None ELSE Some(row.quantity * row.amount[1])

\* A sum that counts the lines of both directions.
sum_both(d, ks, transaction_type, column) ==
    SumOver([i \in ks |-> LET v == line_value(d.asset_transactions[i], column) IN
                          IF v = None THEN 0 ELSE v[1]], ks)

\* coalesce(sum(case((Transaction.transaction_type == <direction>, <column>),
\* else_=0)), 0) over the lines ks: a line of the other direction counts 0, a
\* NULL value is skipped by SUM.
sum_case(d, ks, transaction_type, column) ==
    SumOver([i \in ks |->
                LET row == d.asset_transactions[i]
                    v == line_value(row, column)
                IN IF d.transactions[row.transaction_id].transaction_type # transaction_type
                   THEN 0
                   ELSE IF v = None THEN 0 ELSE v[1]], ks)

\* asset_data of one result row: the group of asset a.  Amounts and costs are
\* in hundredths.
asset_data(d, lines, a) ==
    LET ks == {i \in lines : d.asset_transactions[i].asset_id = a}
        quantity_in == sum_case(d, ks, TypeIN, "quantity")
        quantity_out == sum_case(d, ks, TypeOUT, "quantity")
        amount_in == sum_case(d, ks, TypeIN, "amount")
        amount_out == sum_case(d, ks, TypeOUT, "amount")
        cost_in == sum_case(d, ks, TypeIN, "cost")
        cost_out == sum_case(d, ks, TypeOUT, "cost")
    IN [asset_id |-> a, category |-> CategoryOf[a],
        total_quantity_in |-> quantity_in, total_quantity_out |-> quantity_out,
        total_amount_in |-> amount_in, total_amount_out |-> amount_out,
        total_cost_in |-> cost_in, total_cost_out |-> cost_out,
        net_quantity |-> quantity_in - quantity_out,
        net_amount |-> amount_in - amount_out,
        net_cost |-> cost_in - cost_out]

\* The summary_totals of the early return for no transaction
zero_totals ==
    [total_quantity_in |-> 0, total_quantity_out |-> 0, total_amount_in |-> 0,
     total_amount_out |-> 0, total_cost_in |-> 0, total_cost_out |-> 0,
     net_quantity |-> 0, net_amount |-> 0, net_cost |-> 0]

\* total_summary: the loop over the result rows and the net totals after it
total_summary(asset_reports) ==
    LET as == DOMAIN asset_reports
        quantity_in == SumOver([a \in as |-> asset_reports[a].total_quantity_in], as)
        quantity_out == SumOver([a \in as |-> asset_reports[a].total_quantity_out], as)
        amount_in == SumOver([a \in as |-> asset_reports[a].total_amount_in], as)
        amount_out == SumOver([a \in as |-> asset_reports[a].total_amount_out], as)
        cost_in == SumOver([a \in as |-> asset_reports[a].total_cost_in], as)
        cost_out == SumOver([a \in as |-> asset_reports[a].total_cost_out], as)
    IN [total_quantity_in |-> quantity_in, total_quantity_out |-> quantity_out,
        total_amount_in |-> amount_in, total_amount_out |-> amount_out,
        total_cost_in |-> cost_in, total_cost_out |-> cost_out,
        net_quantity |-> quantity_in - quantity_out,
        net_amount |-> amount_in - amount_out,
        net_cost |-> cost_in - cost_out]

\* The body of an error response
no_report == [asset_reports |-> << >>, summary_totals |-> << >>,
              filtered_transaction_ids |-> {}]

\* GenerateReport.get: the status and the body.  asset_reports is the list of
\* rows, keyed here by the asset of the row (the query has no ORDER BY);
\* filtered_transaction_ids is the handler's list of that name.
GenerateReport_get(d, args) ==
    IF args.date = None THEN [status |-> 400, body |-> no_report]
    ELSE LET ids == filtered_transaction_ids(d, args) IN
         IF ids = {}
         THEN [status |-> 200,
               body |-> [asset_reports |-> << >>, summary_totals |-> zero_totals,
                         filtered_transaction_ids |-> ids]]
         ELSE LET lines == report_lines(d, ids, args)
                  grouped == {d.asset_transactions[i].asset_id : i \in lines}
                  asset_reports == [a \in grouped |-> asset_data(d, lines, a)]
              IN [status |-> 200,
                  body |-> [asset_reports |-> asset_reports,
                            summary_totals |-> total_summary(asset_reports),
                            filtered_transaction_ids |-> ids]]

\* The response to a read: the request's arguments and the body returned
Answer(op, status, args, body) ==
    response' = [op |-> op, status |-> status, id |-> MissingId, dirty |-> FALSE,
                 before |-> << >>, undoes |-> "no", case |-> "none",
                 args |-> args, body |-> body]

getAssetReport ==
    \E args \in ReportArgs :
        /\ LET r == GenerateReport_get(DB, args) IN
           Answer("getAssetReport", r.status, args, r.body)
        /\ UNCHANGED << dbvars, issued, requests, base >>

\* A committed ledger of transactions in both warehouses on two dates, with
\* lines of quantity 1 or 2 and amount 0.03
InitReports ==
    /\ \E d \in Ledgers(AllWarehouses, Dates, {1, 2}, {Some(3)}) :
        /\ quantity = d.quantity
        /\ transactions = d.transactions
        /\ asset_transactions = d.asset_transactions
        /\ warehouses = d.warehouses
        /\ next_tid = d.next_tid
        /\ next_lid = d.next_lid
    /\ response = NoResponse
    /\ issued = {}
    /\ requests = << >>
    /\ base = << >>

NextReports == getAssetReport

\* Reports on a committed ledger.
SpecReports == InitReports /\ [][NextReports]_vars

\* ---- AssetAverage.get
\* The lines of an asset with a positive amount, of either direction.
counted_lines_of_any_direction(d, asset_id) ==
    {i \in DOMAIN d.asset_transactions :
        /\ d.asset_transactions[i].asset_id = asset_id
        /\ d.asset_transactions[i].amount # None
        /\ d.asset_transactions[i].amount[1] > 0}

\* The rows func.avg ranges over: the lines of the asset, joined to an IN
\* transaction, with amount > 0 (a NULL amount does not satisfy the filter)
counted_lines(d, asset_id) ==
    {i \in DOMAIN d.asset_transactions :
        /\ d.asset_transactions[i].asset_id = asset_id
        /\ d.transactions[d.asset_transactions[i].transaction_id].transaction_type = TypeIN
        /\ d.asset_transactions[i].amount # None
        /\ d.asset_transactions[i].amount[1] > 0}

\* The k for which round(float(x), 2) of x = (k + 0.5) / 100 is (k + 1) / 100:
\* the double nearest to 0.005, 0.025, 0.035 lies above the half, the double
\* nearest to 0.015, 0.045 below it.
HalfCentRoundsUp == {0, 2, 3}

\* round(float(result), 2) of result = total / n hundredths, in hundredths
round_2(total, n) ==
    LET q == total \div n
        r == total % n
    IN IF 2 * r < n THEN q
       ELSE IF 2 * r > n THEN q + 1
       ELSE IF q \in HalfCentRoundsUp THEN q + 1 ELSE q

\* AssetAverage.get: {"asset_id": ..., "average": ...}, the average in hundredths
AssetAverage_get(d, asset_id) ==
    LET ks == counted_lines(d, asset_id)
        total == SumOver([i \in ks |-> d.asset_transactions[i].amount[1]], ks)
    IN [status |-> 200,
        body |-> [asset_id |-> asset_id,
                  average |-> IF ks # {} THEN round_2(total, Cardinality(ks)) ELSE 0]]

getAverageInboundCost ==
    \E asset_id \in Assets \cup {MissingAsset} :
        /\ LET r == AssetAverage_get(DB, asset_id) IN
           Answer("getAverageInboundCost", r.status, [asset_id |-> asset_id], r.body)
        /\ UNCHANGED << dbvars, issued, requests, base >>

\* A committed ledger of transactions in warehouse 1 with lines of quantity 1
\* and no amount or an amount of 0.00, 0.01, 0.02 or 0.04
InitAverage ==
    /\ \E d \in Ledgers(Warehouses, {1}, {1}, {None, Some(0), Some(1), Some(2), Some(4)}) :
        /\ quantity = d.quantity
        /\ transactions = d.transactions
        /\ asset_transactions = d.asset_transactions
        /\ warehouses = d.warehouses
        /\ next_tid = d.next_tid
        /\ next_lid = d.next_lid
    /\ response = NoResponse
    /\ issued = {}
    /\ requests = << >>
    /\ base = << >>

NextAverage == getAverageInboundCost

\* Average inbound costs on a committed ledger.
SpecAverage == InitAverage /\ [][NextAverage]_vars

\* ------------------------------------------------------------ properties
\* The sum of the quantities of the stored lines of asset a in transactions of
\* direction transaction_type.
LineSum(a, transaction_type) ==
    LET ids == {i \in DOMAIN asset_transactions :
                   /\ asset_transactions[i].asset_id = a
                   /\ transactions[asset_transactions[i].transaction_id].transaction_type
                          = transaction_type}
    IN SumOver([i \in ids |-> asset_transactions[i].quantity], ids)

\* C1. Conservation: every asset's quantity is its starting quantity plus the
\* quantities of its stored lines in IN transactions minus the quantities of
\* its stored lines in OUT transactions.
Conservation ==
    \A a \in Assets : quantity[a] = startQty[a] + LineSum(a, TypeIN) - LineSum(a, TypeOUT)

\* C2. Non-negativity: no committed state has an asset with quantity < 0.
NonNegative == \A a \in Assets : quantity[a] >= 0

\* C3. Atomicity of create: a rejected createTransaction leaves no header, no
\* line and every asset quantity as before the call.
CreateAtomic ==
    [][(response'.op = "createTransaction" /\ response'.status # 201)
          => UNCHANGED << quantity, transactions, asset_transactions >>]_vars

\* A createTransaction was rejected for insufficient stock on a later line,
\* after the session had already changed the quantity for an earlier line.
CreateRejectedMidway ==
    /\ response.op = "createTransaction"
    /\ response.status = 409
    /\ response.dirty

\* C4. Uniqueness under concurrency: concurrent createTransaction requests
\* never compute the same customID, and none of them is turned away by the
\* unique constraint on custom_id.
ConcurrentCreatesDistinct ==
    /\ \A r1, r2 \in Requests :
           (/\ r1 # r2
            /\ requests[r1].custom_id # None
            /\ requests[r2].custom_id # None)
           => requests[r1].custom_id # requests[r2].custom_id
    /\ \A r \in Requests :
           (requests[r].pc = "done" /\ requests[r].custom_id # None) => requests[r].status = 201

\* C5. No overdraw under concurrency: the quantity the committed OUT lines of
\* an asset deducted never exceeds what was available (the starting quantity
\* plus the committed IN lines), and the asset quantity reflects every
\* committed line.
NoOverdraw ==
    \A a \in Assets :
        /\ LineSum(a, TypeOUT) <= startQty[a] + LineSum(a, TypeIN)
        /\ quantity[a] = startQty[a] + LineSum(a, TypeIN) - LineSum(a, TypeOUT)

\* The request q run alone, as one sequential handler, on database d
RunAlone(d, q) ==
    IF q.kind = "create" THEN TransactionList_post(d, q.wh, q.transaction_type, q.ls).db
    ELSE IF q.kind = "addLine" THEN TransactionAssetsList_post(d, q.target, q.ls[1]).db
    ELSE d

\* The requests run one after the other in the order p[1], p[2], ...
RECURSIVE RunInOrder(_, _, _)
RunInOrder(d, p, k) ==
    IF k > NumRequests THEN d ELSE RunInOrder(RunAlone(d, requests[p[k]]), p, k + 1)

\* What the claim compares: the asset quantities and the stored lines (how
\* many lines of each direction, asset and quantity).
LedgerView(d) ==
    [quantity |-> d.quantity,
     lines |-> [x \in BOOLEAN \X Assets \X (1..MaxQty) |->
                   Cardinality({i \in DOMAIN d.asset_transactions :
                       /\ d.transactions[d.asset_transactions[i].transaction_id].transaction_type = x[1]
                       /\ d.asset_transactions[i].asset_id = x[2]
                       /\ d.asset_transactions[i].quantity = x[3]})]]

\* C6. Serializability of ledger writes: once the concurrent requests have
\* all answered, the committed asset quantities and stored lines are those of
\* running the requests one after the other in some order.
Serializable ==
    (\A r \in Requests : requests[r].pc = "done")
        => \E p \in Permutations(Requests) : LedgerView(RunInOrder(base, p, 1)) = LedgerView(DB)

\* C7. A new transaction never receives a customID that an earlier transaction
\* of its branch held, whether that one still exists or was deleted.
NeverReused ==
    [][\A t \in DOMAIN transactions' \ DOMAIN transactions :
           transactions'[t].custom_id \notin issued]_vars

\* The quantity of the lines of transaction t on asset a
TransactionSum(t, a) ==
    LET ids == {i \in LinesOf(DB, t) : asset_transactions[i].asset_id = a}
    IN SumOver([i \in ids |-> asset_transactions[i].quantity], ids)

\* C8. Direction change: an updateTransaction that changes the direction of t
\* leaves every asset with the quantity obtained by reversing each line of t
\* under the old direction and applying it again under the new one.
DirectionChangeReapplies ==
    [][\A t \in DOMAIN transactions :
           (/\ response'.op = "updateTransaction"
            /\ response'.status = 200
            /\ t \in DOMAIN transactions'
            /\ transactions'[t].transaction_type # transactions[t].transaction_type)
           => \A a \in Assets :
                  quantity'[a] =
                      apply_line(reverse_line(quantity[a], transactions[t].transaction_type,
                                              TransactionSum(t, a)),
                                 transactions'[t].transaction_type, TransactionSum(t, a))]_vars

\* C9. Reversal round trip: a successful createTransaction followed by
\* deleteTransaction of it, and a successful addLine followed by deleteLine of
\* that line, return every asset quantity to its value before the first of the
\* two requests.
RoundTrip == response.undoes # "no" => quantity = response.before

\* An OUT transaction was created and then deleted.
RoundTripDone ==
    /\ response.op = "deleteTransaction"
    /\ response.status = 200
    /\ response.undoes = "OUT"
    /\ response.before # << >>

\* C10. A rejected updateLine leaves every asset quantity and every stored line
\* as before the call.
UpdateLineAtomic ==
    [][(response'.op = "updateLine" /\ response'.status # 200)
          => UNCHANGED << quantity, transactions, asset_transactions >>]_vars

\* An updateLine that moves a line to another asset was rejected for
\* insufficient stock after the session had reversed the line on the old asset.
UpdateLineRejectedMidway ==
    /\ response.op = "updateLine"
    /\ response.status = 409
    /\ response.dirty

\* C11. Cumulative check within one create: an OUT createTransaction whose
\* lines of one asset each ask no more than the asset holds and together ask
\* more is rejected for insufficient stock (409).
CumulativeRejected == response.case = "cumulative" => response.status = 409

\* Such a create was rejected, after its first line had been taken from the
\* session's asset.
CumulativeCase ==
    /\ response.op = "createTransaction"
    /\ response.case = "cumulative"
    /\ response.status = 409
    /\ response.dirty

\* C12. Insufficient stock is a conflict that changes nothing: a
\* createTransaction or addLine for an OUT transaction with a line that asks
\* more than its asset holds is answered 409, and the asset quantities, the
\* headers and the stored lines stay as they were.
InsufficientIsConflict ==
    [][response'.case = "insufficient"
          => /\ response'.status = 409
             /\ UNCHANGED << quantity, transactions, asset_transactions >>]_vars

\* An addLine was rejected for insufficient stock.
InsufficientRejected ==
    /\ response.op = "addLine"
    /\ response.case = "insufficient"
    /\ response.status = 409

\* C13. Effect of a quantity edit: a successful updateLine that changes only
\* the quantity of a line from q to q2 changes the quantity of the line's asset
\* by q - q2 for an OUT transaction and by q2 - q for an IN transaction, and
\* changes no other asset and no other line.
QuantityEditEffect ==
    [][(/\ response'.op = "updateLine"
        /\ response'.status = 200
        /\ response'.case = "quantity_changed")
       => \E lid \in DOMAIN asset_transactions :
             LET row == asset_transactions[lid]
                 q == row.quantity
                 q2 == asset_transactions'[lid].quantity
                 transaction_type == transactions[row.transaction_id].transaction_type
             IN /\ q2 # q
                /\ asset_transactions'[lid].asset_id = row.asset_id
                /\ \A i \in DOMAIN asset_transactions \ {lid} :
                       asset_transactions'[i] = asset_transactions[i]
                /\ quantity' = [quantity EXCEPT ![row.asset_id] =
                                    IF transaction_type = TypeIN THEN @ + (q2 - q)
                                    ELSE @ + (q - q2)]]_vars

\* An updateLine changed the quantity of a line and nothing else of it.
QuantityEdited ==
    /\ response.op = "updateLine"
    /\ response.status = 200
    /\ response.case = "quantity_changed"

\* C14. customID is immutable: no updateTransaction, whatever its patch,
\* changes the customID of an existing transaction.
CustomIdImmutable ==
    [][response'.op = "updateTransaction"
          => \A t \in DOMAIN transactions :
                 /\ t \in DOMAIN transactions'
                 /\ transactions'[t].custom_id = transactions[t].custom_id]_vars

\* An updateTransaction changed the direction of a transaction.
HeaderUpdated ==
    /\ response.op = "updateTransaction"
    /\ response.status = 200
    /\ \E t \in DOMAIN transactions :
           /\ transactions[t].transaction_type = TypeIN
           /\ \E i \in LinesOf(DB, t) : quantity[asset_transactions[i].asset_id] < InitQty

\* C15. Quantity is owned by the ledger: no single asset update and no bulk
\* asset update changes the quantity of an existing asset.
QuantityOwnedByLedger ==
    [][response'.op \in {"updateAsset", "bulkUpdateAssets"} => UNCHANGED quantity]_vars

\* C16. totalValue consistency: in every committed state the total_value of
\* each stored line is its quantity times its amount, and is absent when the
\* amount is absent.
TotalValueConsistent ==
    \A i \in DOMAIN asset_transactions :
        LET row == asset_transactions[i] IN
        /\ row.amount = None => row.total_value = None
        /\ row.amount # None => row.total_value = Some(row.quantity * row.amount[1])

\* An updateLine changed the quantity of a line that has an amount above zero.
ValuedLineEdited ==
    /\ response.op = "updateLine"
    /\ response.status = 200
    /\ response.case = "quantity_changed"
    /\ \E i \in DOMAIN asset_transactions :
           /\ asset_transactions[i].amount # None
           /\ asset_transactions[i].amount[1] > 0
           /\ asset_transactions[i].quantity > 1

\* C17. deleteTransaction removes the header and all of its lines: after it
\* commits, the transaction and every line that belonged to it are gone, and
\* in every committed state each stored line references an existing
\* transaction.
DeleteRemovesAll ==
    [][/\ \A i \in DOMAIN asset_transactions' :
              asset_transactions'[i].transaction_id \in DOMAIN transactions'
       /\ (response'.op = "deleteTransaction" /\ response'.status = 200)
              => \E tid \in DOMAIN transactions \ DOMAIN transactions' :
                     /\ DOMAIN transactions' = DOMAIN transactions \ {tid}
                     /\ \A i \in DOMAIN asset_transactions :
                            asset_transactions[i].transaction_id = tid
                                <=> i \notin DOMAIN asset_transactions']_vars

\* A deleteTransaction removed a transaction with its lines: lines were
\* stored before, none is left.
DeletedWithLines ==
    /\ response.op = "deleteTransaction"
    /\ response.status = 200
    /\ next_lid > 1
    /\ asset_transactions = << >>

\* C18. A rejected create consumes no customID: after a createTransaction is
\* rejected, the customID the next createTransaction of a branch receives is
\* the one it would have received before the rejected call, for every branch.
RejectedCreateKeepsNumber ==
    [][(response'.op = "createTransaction" /\ response'.status # 201)
          => \A w \in AllWarehouses :
                 generate_custom_id(DB', warehouses[w]) = generate_custom_id(DB, warehouses[w])]_vars

\* A createTransaction was rejected for a line failure, after its header had
\* been flushed, on a branch that has a transaction.
LineFailureAfterFlush ==
    /\ response.op = "createTransaction"
    /\ response.status = 409
    /\ response.case \in {"insufficient", "cumulative"}
    /\ transactions # << >>
    /\ next_tid > Len(transactions) + 1

\* C19. Referential errors are not-found errors: a createTransaction naming a
\* warehouse or an asset that does not exist, and an addLine or updateLine
\* naming an asset that does not exist, are answered 404 (not 400).
ReferentialIsNotFound == response.case = "missing_ref" => response.status = 404

\* C20. Stored lines are well-formed: in every committed state each stored
\* line has quantity > 0 and an amount that is absent or >= 0, and a
\* createTransaction, addLine or updateLine with a quantity <= 0 or a negative
\* amount is answered 400 and persists nothing.
LinesWellFormed ==
    [][/\ \A i \in DOMAIN asset_transactions' :
              /\ asset_transactions'[i].quantity > 0
              /\ asset_transactions'[i].amount = None \/ asset_transactions'[i].amount[1] >= 0
       /\ response'.case = "malformed"
              => /\ response'.status = 400
                 /\ UNCHANGED << quantity, transactions, asset_transactions >>]_vars

\* The transactions of date args.date in warehouse args.warehouse_id
InWarehouseOnDate(args) ==
    {t \in DOMAIN transactions : /\ transactions[t].date = args.date[1]
                                 /\ transactions[t].warehouse_id = args.warehouse_id[1]}

\* C21. Report filter precedence: when getAssetReport is given both a
\* warehouse filter and a branch filter, the selected transactions are exactly
\* those of the given date in that warehouse; the branch filter is ignored,
\* also when the warehouse belongs to a different branch.
WarehouseFilterPrecedes ==
    /\ response.op = "getAssetReport"
    /\ response.status = 200
    /\ response.args.warehouse_id # None
    /\ response.args.branch_id # None
    => response.body.filtered_transaction_ids = InWarehouseOnDate(response.args)

\* The same for a warehouse filter other than 0.
NonZeroWarehouseFilterPrecedes ==
    /\ response.op = "getAssetReport"
    /\ response.status = 200
    /\ response.args.warehouse_id # None
    /\ response.args.warehouse_id # Some(MissingId)
    /\ response.args.branch_id # None
    => response.body.filtered_transaction_ids = InWarehouseOnDate(response.args)

\* The lines a report selects: the stored lines of the selected transactions
\* whose asset is of the category asked for
SelectedLines ==
    {i \in DOMAIN asset_transactions :
        /\ asset_transactions[i].transaction_id \in response.body.filtered_transaction_ids
        /\ response.args.category # None
           => CategoryOf[asset_transactions[i].asset_id] = response.args.category[1]}

\* The sum of the quantities of the selected lines of asset a in transactions
\* of direction transaction_type
SelectedQuantity(a, transaction_type) ==
    LET ks == {i \in SelectedLines :
                  /\ asset_transactions[i].asset_id = a
                  /\ transactions[asset_transactions[i].transaction_id].transaction_type
                         = transaction_type}
    IN SumOver([i \in ks |-> asset_transactions[i].quantity], ks)

\* C22. Report totals: getAssetReport returns one row per asset that has a
\* selected line; each row's IN and OUT quantity is the sum of that asset's
\* selected line quantities in IN and OUT transactions and its net quantity is
\* IN minus OUT; the grand-total row equals the sum of the rows, with net
\* total = total IN - total OUT.
ReportTotals ==
    response.op = "getAssetReport" /\ response.status = 200 =>
        LET rows == response.body.asset_reports
            totals == response.body.summary_totals
        IN /\ DOMAIN rows = {asset_transactions[i].asset_id : i \in SelectedLines}
           /\ \A a \in DOMAIN rows :
                /\ rows[a].asset_id = a
                /\ rows[a].total_quantity_in = SelectedQuantity(a, TypeIN)
                /\ rows[a].total_quantity_out = SelectedQuantity(a, TypeOUT)
                /\ rows[a].net_quantity = SelectedQuantity(a, TypeIN) - SelectedQuantity(a, TypeOUT)
           /\ totals.total_quantity_in =
                  SumOver([a \in DOMAIN rows |-> rows[a].total_quantity_in], DOMAIN rows)
           /\ totals.total_quantity_out =
                  SumOver([a \in DOMAIN rows |-> rows[a].total_quantity_out], DOMAIN rows)
           /\ totals.total_amount_in =
                  SumOver([a \in DOMAIN rows |-> rows[a].total_amount_in], DOMAIN rows)
           /\ totals.total_amount_out =
                  SumOver([a \in DOMAIN rows |-> rows[a].total_amount_out], DOMAIN rows)
           /\ totals.total_cost_in =
                  SumOver([a \in DOMAIN rows |-> rows[a].total_cost_in], DOMAIN rows)
           /\ totals.total_cost_out =
                  SumOver([a \in DOMAIN rows |-> rows[a].total_cost_out], DOMAIN rows)
           /\ totals.net_quantity = totals.total_quantity_in - totals.total_quantity_out
           /\ totals.net_amount = totals.total_amount_in - totals.total_amount_out
           /\ totals.net_cost = totals.total_cost_in - totals.total_cost_out

\* A report with a row for an asset that has a selected IN line and a
\* selected OUT line of another quantity.
ReportWithInAndOut ==
    /\ response.op = "getAssetReport"
    /\ response.status = 200
    /\ \E a \in DOMAIN response.body.asset_reports :
        /\ response.body.asset_reports[a].total_quantity_in > 0
        /\ response.body.asset_reports[a].total_quantity_out > 0
        /\ response.body.asset_reports[a].net_quantity # 0

InboundLines(a) ==
    {i \in DOMAIN asset_transactions :
        /\ asset_transactions[i].asset_id = a
        /\ transactions[asset_transactions[i].transaction_id].transaction_type = TypeIN
        /\ asset_transactions[i].amount # None
        /\ asset_transactions[i].amount[1] > 0}

InboundAmount(a) ==
    SumOver([i \in InboundLines(a) |-> asset_transactions[i].amount[1]], InboundLines(a))

\* C24 as stated. averageInboundCost(assetID) is the mean unitAmount over
\* exactly the stored lines of that asset that belong to IN transactions and
\* have unitAmount > 0, and 0 when no such line exists.
AverageIsMean ==
    response.op = "getAverageInboundCost" =>
        LET a == response.args.asset_id
            n == Cardinality(InboundLines(a))
        IN /\ response.status = 200
           /\ n = 0 => response.body.average = 0
           /\ n > 0 => response.body.average * n = InboundAmount(a)

\* C24. averageInboundCost(assetID) is the mean unitAmount over exactly the
\* stored lines of that asset that belong to IN transactions and have
\* unitAmount > 0, rounded to two decimal places: it differs from the mean by
\* at most 0.005.  Lines of OUT transactions and lines with absent or zero
\* amount do not count, and the result is 0 when no such line exists.
AverageIsRoundedMean ==
    response.op = "getAverageInboundCost" =>
        LET a == response.args.asset_id
            n == Cardinality(InboundLines(a))
            off == response.body.average * n - InboundAmount(a)
        IN /\ response.status = 200
           /\ n = 0 => response.body.average = 0
           /\ n > 0 => 2 * off <= n /\ 2 * off >= 0 - n

\* An average was returned for an asset that has an IN line with an amount
\* above zero and an OUT line with another amount above zero.
AverageSkipsOutLine ==
    /\ response.op = "getAverageInboundCost"
    /\ response.body.average > 0
    /\ \E i, j \in DOMAIN asset_transactions :
        /\ asset_transactions[i].asset_id = response.args.asset_id
        /\ asset_transactions[j].asset_id = response.args.asset_id
        /\ transactions[asset_transactions[i].transaction_id].transaction_type = TypeIN
        /\ transactions[asset_transactions[j].transaction_id].transaction_type = TypeOUT
        /\ asset_transactions[i].amount # None
        /\ asset_transactions[j].amount # None
        /\ asset_transactions[j].amount[1] > 0
        /\ asset_transactions[i].amount[1] > 0
        /\ asset_transactions[i].amount # asset_transactions[j].amount

\* C25. Moving a line to another asset: a successful updateLine that changes
\* a line's asset from A to B (A # B) undoes the line's old quantity on A and
\* applies the new quantity to B under the transaction's direction (for an
\* OUT transaction A gains the old quantity and B loses the new quantity, for
\* an IN transaction A loses the old and B gains the new), and no other asset
\* changes.
MoveEffect ==
    [][\A lid \in DOMAIN asset_transactions :
        (/\ response'.op = "updateLine"
         /\ response'.status = 200
         /\ response'.args.id = lid
         /\ asset_transactions'[lid].asset_id # asset_transactions[lid].asset_id)
        => LET A == asset_transactions[lid].asset_id
               B == asset_transactions'[lid].asset_id
               q == asset_transactions[lid].quantity
               q2 == asset_transactions'[lid].quantity
               out == transactions[asset_transactions[lid].transaction_id].transaction_type
                          = TypeOUT
           IN /\ quantity'[A] = IF out THEN quantity[A] + q ELSE quantity[A] - q
              /\ quantity'[B] = IF out THEN quantity[B] - q2 ELSE quantity[B] + q2
              /\ \A a \in Assets \ {A, B} : quantity'[a] = quantity[a]]_vars

\* An updateLine moved a line of an OUT transaction to another asset with a
\* new quantity: the asset it left holds more than before the call, the asset
\* it names holds less.
LineMoved ==
    /\ response.op = "updateLine"
    /\ response.status = 200
    /\ response.args.patch.asset_id # Absent
    /\ response.args.patch.quantity # Absent
    /\ response.args.id \in DOMAIN asset_transactions
    /\ transactions[asset_transactions[response.args.id].transaction_id].transaction_type = TypeOUT
    /\ quantity[response.args.patch.asset_id[1]] < response.before[response.args.patch.asset_id[1]]
    /\ \E a \in Assets : quantity[a] > response.before[a]

\* C26. Re-validation against the reversed state: an updateLine on a line of
\* an OUT transaction that keeps the asset and changes the quantity from q to
\* q2 (q2 > 0) is accepted exactly when asset.quantity + q >= q2: the stock
\* check counts the line's own previously issued quantity as available.
RevalidatedAfterReversal ==
    [][\A lid \in DOMAIN asset_transactions :
        LET row == asset_transactions[lid]
            patch == response'.args.patch
        IN (/\ response'.op = "updateLine"
            /\ response'.args.id = lid
            /\ transactions[row.transaction_id].transaction_type = TypeOUT
            /\ patch.asset_id \in {Absent, Present(row.asset_id)}
            /\ patch.amount = Absent
            /\ patch.quantity # Absent
            /\ patch.quantity[1] > 0
            /\ patch.quantity[1] # row.quantity)
           => (response'.status = 200
                  <=> quantity[row.asset_id] + row.quantity >= patch.quantity[1])]_vars

\* An updateLine raised the quantity of a line of an OUT transaction to more
\* than its asset held before the call, and was accepted.
RaisedBeyondStock ==
    /\ response.op = "updateLine"
    /\ response.status = 200
    /\ response.args.patch.asset_id = Absent
    /\ response.args.patch.quantity # Absent
    /\ response.args.id \in DOMAIN asset_transactions
    /\ LET row == asset_transactions[response.args.id] IN
        /\ transactions[row.transaction_id].transaction_type = TypeOUT
        /\ response.before[row.asset_id] < response.args.patch.quantity[1]
        /\ quantity[row.asset_id] < response.before[row.asset_id]

\* C27. In a sequential execution, a createTransaction whose warehouse exists
\* and whose lines all pass validation (and ask no more than the stock) is
\* never rejected with a duplicate-customID or integrity conflict (409),
\* whatever creates and deletes of transactions of that branch preceded it.
CreateNeverConflicts ==
    response.op = "createTransaction" /\ response.case = "none" => response.status # 409

\* The database after deleteTransaction of each of the transactions tids
RECURSIVE DeletedOneByOne(_, _)
DeletedOneByOne(d, tids) ==
    IF tids = {} THEN d
    ELSE LET t == CHOOSE u \in tids : TRUE
         IN DeletedOneByOne(TransactionResource_delete(d, t).db, tids \ {t})

\* C28. Every path that removes a transaction reverses it: deleting a
\* warehouse, which cascades to removing that warehouse's transactions and
\* their lines, leaves each asset's quantity as if each removed transaction
\* had been deleted with deleteTransaction.
CascadeReverses ==
    [][response'.op = "deleteWarehouse" /\ response'.status = 200
          => quantity' = DeletedOneByOne(DB, DOMAIN transactions \ DOMAIN transactions').quantity]_vars

\* C29. In every committed state, the branch part of each stored
\* transaction's customID equals the branch of the transaction's current
\* warehouse, also after updateTransaction changes the transaction's warehouse
\* or a warehouse update changes the warehouse's branch.
CustomIdNamesBranch ==
    \A t \in DOMAIN transactions :
        transactions[t].custom_id[1] = warehouses[transactions[t].warehouse_id]

\* C30. Header edits do not touch stock: an updateTransaction whose patch does
\* not change the direction leaves every asset quantity and every stored line
\* (asset, quantity, amount, total_value) unchanged.
HeaderEditKeepsStock ==
    [][(/\ response'.op = "updateTransaction"
        /\ LET tid == response'.args.id
               patch == response'.args.patch
           IN \/ patch.transaction_type = Absent
              \/ tid \notin DOMAIN transactions
              \/ patch.transaction_type[1] = transactions[tid].transaction_type)
       => /\ quantity' = quantity
          /\ asset_transactions' = asset_transactions]_vars

\* An updateTransaction moved a transaction that has a line to another
\* warehouse, without a direction in its patch.
HeaderMoved ==
    /\ response.op = "updateTransaction"
    /\ response.status = 200
    /\ response.args.patch.transaction_type = Absent
    /\ response.args.patch.warehouse_id # Absent
    /\ response.args.id \in DOMAIN transactions
    /\ transactions[response.args.id].custom_id[1] # response.args.patch.warehouse_id[1]
    /\ LinesOf(DB, response.args.id) # {}
====
